---- MODULE Spec2Model ----
(***************************************************************************)
(* The whiteboard client: the board reducer (elements, history, index,     *)
(* phase), the Board component's effects and handlers (canvas session,     *)
(* REST load, timers, inbound socket events) and the socket module.        *)
(*                                                                         *)
(* JavaScript values are modelled by what the code can observe of them:    *)
(*  - an entry of an element array is a record with a `kind` ("object",    *)
(*    "null" or "array"); `type` "" stands for a missing type property;    *)
(*  - (clientX, clientY) is one abstract position; stroke, fill, size, id  *)
(*    and roughEle are carried along unread by the reducer and left out;   *)
(*  - the only in-place mutation of the code is DRAW_MOVE's assignment to  *)
(*    the `points` property of a brush element.  A brush object carries an *)
(*    object identity `oid`; the assignment changes every array entry that *)
(*    is that same object.  Objects that are never mutated have oid 0.     *)
(*  - `index` is 0-based as in the code; history[index] is HistAt.         *)
(***************************************************************************)
EXTENDS Integers, Sequences, FiniteSets, Bags, TLC

\* ------------------------------------------------------------- bounds
MaxElements == 2      \* DRAW_DOWN is not taken beyond this many live elements
MaxHistory == 3       \* a push is not taken beyond this history length
MaxPoints == 2        \* a brush stroke gets at most this many sample points
MaxTimers == 2        \* pending setTimeout callbacks
MaxLoads == 2         \* REST loads in flight
MaxSockets == 3       \* connections opened by io() during one run
MaxSteps == 6         \* steps of a run of Spec
MaxBoardSteps == 10   \* steps of a run of SpecBoard
MaxSessionSteps == 9   \* steps of a run of SpecSession
MaxAlerts == 2        \* alert() dialogs shown during one run
MaxTime == 6          \* seconds the sidebar's clock runs
MaxRequests == 2      \* sidebar requests in flight
MaxSidebarSteps == 7  \* steps of a run of SpecSidebar
MaxSwitchSteps == 8   \* steps of a run of SpecSwitch
MaxLogoutSteps == 8   \* steps of a run of SpecLogout
MaxNesting == 2       \* handleCreateCanvas calls suspended at their refresh

Positions == {0, 1}
NoPos == -1
CanvasIds == {"A", "B"}
NoId == "none"
Tokens == {"tok1"}
NoToken == "none"
Texts == {"hi"}

\* ------------------------------------------------------------- constants
LINE == "LINE"
RECTANGLE == "RECTANGLE"
CIRCLE == "CIRCLE"
ARROW == "ARROW"
BRUSH == "BRUSH"
ERASER == "ERASER"
TEXT == "TEXT"
TOOL_ITEMS == {LINE, RECTANGLE, CIRCLE, ARROW, BRUSH, ERASER, TEXT}
ShapeTypes == {LINE, RECTANGLE, CIRCLE, ARROW}
\* tools the toolbar action of the model selects (one shape stands for the four
\* shape tools, which the reducer treats alike)
ToolChoices == {BRUSH, RECTANGLE, ERASER, TEXT}

NONE == "NONE"
DRAWING == "DRAWING"
ERASING == "ERASING"
WRITING == "WRITING"
TOOL_ACTION_TYPES == {NONE, DRAWING, ERASING, WRITING}

\* ------------------------------------------------------------- values
Obj(type, x1, x2, points, text, oid) ==
  [kind |-> "object", type |-> type, x1 |-> x1, x2 |-> x2, points |-> points,
   text |-> text, oid |-> oid, arr |-> <<>>]

NullEntry ==
  [kind |-> "null", type |-> "", x1 |-> NoPos, x2 |-> NoPos, points |-> <<>>,
   text |-> "", oid |-> 0, arr |-> <<>>]

\* an array stored as an entry of another array (it has no type property)
ArrEntry(a) ==
  [kind |-> "array", type |-> "", x1 |-> NoPos, x2 |-> NoPos, points |-> <<>>,
   text |-> "", oid |-> 0, arr |-> a]

\* el => el && el.type
IsValidElement(el) == el.kind # "null" /\ el.type # ""

FilterValid(seq) == SelectSeq(seq, IsValidElement)

RECURSIVE StripSeq(_)
\* the value of an array, object identities forgotten (what JSON carries)
StripSeq(seq) ==
  [i \in 1..Len(seq) |->
     [seq[i] EXCEPT !.oid = 0,
                    !.arr = IF seq[i].kind = "array" THEN StripSeq(seq[i].arr) ELSE <<>>]]

RECURSIVE OidsOfSeq(_)
OidsOfSeq(seq) ==
  UNION {({seq[i].oid} \ {0}) \cup
         (IF seq[i].kind = "array" THEN OidsOfSeq(seq[i].arr) ELSE {}) : i \in 1..Len(seq)}

OidsOfHistory(h) == UNION {OidsOfSeq(h[i]) : i \in 1..Len(h)}

\* the smallest identity not in `used`
FreshOid(used) == CHOOSE n \in 1..(Cardinality(used) + 1) :
                    n \notin used /\ \A m \in 1..(n - 1) : m \in used

RECURSIVE CopySeq(_, _)
\* el => { ...el, points: el.points.map(p => ({...p})) } over an array, and the
\* objects a received JSON array is parsed into: every brush of the result is a
\* new object
CopySeq(seq, used) ==
  IF seq = <<>> THEN <<>>
  ELSE LET el == Head(seq)
           o == IF el.kind = "object" /\ el.type = BRUSH THEN FreshOid(used) ELSE 0
       IN <<[el EXCEPT !.oid = o]>> \o CopySeq(Tail(seq), used \cup {o})

RECURSIVE SetPointsSeq(_, _, _)
\* the effect on one array of assigning `pts` to the points of object `oid`
SetPointsSeq(seq, oid, pts) ==
  [i \in 1..Len(seq) |->
     IF seq[i].kind = "array"
       THEN [seq[i] EXCEPT !.arr = SetPointsSeq(seq[i].arr, oid, pts)]
     ELSE IF seq[i].oid = oid THEN [seq[i] EXCEPT !.points = pts]
     ELSE seq[i]]

SetPointsHistory(h, oid, pts) == [i \in 1..Len(h) |-> SetPointsSeq(h[i], oid, pts)]

\* ------------------------------------------------------------- state
VARIABLES
  boardState,        \* useReducer state of BoardProvider
  mounted,           \* the Board component is rendered
  id,                \* Board's id prop (route parameter), NoId when absent
  isAuthorized,      \* Board's useState flag
  currentCanvasRef,  \* Board's useRef: [id, elements]
  unauthorizedRetryCount, \* closure variable of the current socket effect run
  sessionSock,       \* `socket` captured by the current socket effect run, 0 if none
  socketInstance,    \* module variable of utils/socket.js, 0 for null
  sockets,           \* every connection io() has created
  timers,            \* pending setTimeout callbacks (a bag)
  loads,             \* axios.get calls of loadCanvasFromAPI in flight (a bag of ids)
  tokenStore,        \* localStorage["whiteboard_user_token"]
  crashed,           \* the reducer threw during render: React unmounts the tree
  sent,              \* socket.emit calls made by the last step, in order
  alerts,            \* the alert() dialogs shown so far, in order
  refused,           \* what the current socket effect run's handleUnauthorized has done
  sidebar,           \* Sidebar's state, its banner timers and its requests in flight
  lastOp,            \* the last step: its name and the reducer state it started from
  steps              \* the number of steps taken

vars == <<boardState, mounted, id, isAuthorized, currentCanvasRef,
          unauthorizedRetryCount, sessionSock, socketInstance, sockets, timers,
          loads, tokenStore, crashed, sent, alerts, refused, sidebar, lastOp, steps>>

\* ------------------------------------------------------------- element model
\* createElement(index, x1, y1, x2, y2, {type, ...}): shapes and text keep the
\* coordinates as given, a brush starts with an empty point sequence
createElement(x1, x2, type, oid) ==
  IF type = BRUSH THEN Obj(BRUSH, NoPos, NoPos, <<>>, "", oid)
  ELSE Obj(type, x1, x2, <<>>, "", 0)

\* isPointNearElement(element, px, py): the pointer position meets the geometry
isPointNearElement(el, p) ==
  CASE el.type = BRUSH -> \E i \in 1..Len(el.points) : el.points[i] = p
    [] el.type \in ShapeTypes -> p = el.x1 \/ p = el.x2
    [] el.type = TEXT -> p = el.x1
    [] OTHER -> FALSE

\* ------------------------------------------------------------- boardReducer
\* isUserLoggedIn: !!localStorage.getItem("whiteboard_user_token") at load
initialBoardState ==
  [activeToolItem |-> BRUSH, toolActionType |-> NONE, elements |-> <<>>,
   history |-> << <<>> >>, index |-> 0, canvasId |-> "",
   isUserLoggedIn |-> (tokenStore # NoToken)]

HistAt(s, i) == s.history[i + 1]

\* identities held outside the reducer state or inside it
UsedOids(s) == OidsOfSeq(s.elements) \cup OidsOfHistory(s.history)
                 \cup OidsOfSeq(currentCanvasRef.elements)

CHANGE_TOOL(s, tool) == [s EXCEPT !.activeToolItem = tool]

CHANGE_ACTION_TYPE(s, actionType) == [s EXCEPT !.toolActionType = actionType]

\* a DRAW_DOWN that enters DRAWING whatever the tool
DRAW_DOWN_AlwaysDrawing(s, p) ==
  LET o == IF s.activeToolItem = BRUSH THEN FreshOid(UsedOids(s)) ELSE 0
      newElement == createElement(p, p, s.activeToolItem, o)
  IN [s EXCEPT !.toolActionType = DRAWING,
               !.elements = Append(s.elements, newElement)]

DRAW_DOWN(s, p) ==
  LET o == IF s.activeToolItem = BRUSH THEN FreshOid(UsedOids(s)) ELSE 0
      newElement == createElement(p, p, s.activeToolItem, o)
  IN [s EXCEPT !.toolActionType = IF s.activeToolItem = TEXT THEN WRITING ELSE DRAWING,
               !.elements = Append(s.elements, newElement)]

\* DRAW_MOVE throws: destructuring `type` of undefined on an empty array or of
\* null, or "Type not recognized" in the default branch
DRAW_MOVE_Throws(s) ==
  \/ s.elements = <<>>
  \/ s.elements[Len(s.elements)].kind = "null"
  \/ s.elements[Len(s.elements)].type \notin (ShapeTypes \cup {BRUSH})

DRAW_MOVE(s, p) ==
  LET index == Len(s.elements)
      last == s.elements[index]
  IN IF last.type \in ShapeTypes
       THEN LET o == IF s.activeToolItem = BRUSH THEN FreshOid(UsedOids(s)) ELSE 0
                newElement == createElement(last.x1, p, s.activeToolItem, o)
            IN [s EXCEPT !.elements = [s.elements EXCEPT ![index] = newElement]]
       ELSE \* BRUSH: newElements[index].points = [...points, {x, y}] on the
            \* object itself, which every array holding it sees
            LET pts == Append(last.points, p)
            IN [s EXCEPT !.elements = SetPointsSeq(s.elements, last.oid, pts),
                         !.history = SetPointsHistory(s.history, last.oid, pts)]

\* history.push(snapshot) without the slice(0, index + 1)
PushSnapshot_NoTruncate(s, snapshot) == Append(s.history, snapshot)

PushSnapshot(s, snapshot) ==
  Append(SubSeq(s.history, 1, s.index + 1), snapshot)

DRAW_UP(s) ==
  LET validElements == FilterValid(s.elements)
      elementsCopy == CopySeq(validElements, UsedOids(s))
  IN [s EXCEPT !.history = PushSnapshot(s, elementsCopy),
               !.index = s.index + 1]

ERASE(s, p) ==
  LET keep(el) == IsValidElement(el) /\ ~isPointNearElement(el, p)
      newElements == SelectSeq(s.elements, keep)
  IN [s EXCEPT !.elements = newElements,
               !.history = PushSnapshot(s, newElements),
               !.index = s.index + 1]

\* CHANGE_TEXT returns the state unchanged (with a warning)
CHANGE_TEXT_NoOp(s) ==
  \/ Len(s.elements) = 0
  \/ s.elements[Len(s.elements)].kind = "null"
  \/ s.elements[Len(s.elements)].type # TEXT

CHANGE_TEXT(s, text) ==
  IF CHANGE_TEXT_NoOp(s) THEN s
  ELSE LET elementIndex == Len(s.elements)
           newElements == [s.elements EXCEPT ![elementIndex].text = text]
       IN [s EXCEPT !.toolActionType = NONE,
                    !.elements = newElements,
                    !.history = PushSnapshot(s, newElements),
                    !.index = s.index + 1]

\* UNDO without the `index <= 0` check
UNDO_NoBoundaryCheck(s) == [s EXCEPT !.index = s.index - 1]

\* UNDO that materializes history[0] at the boundary instead of returning state
UNDO_ClampsToFirst(s) ==
  IF Len(s.history) = 0 THEN s
  ELSE LET previousIndex == IF s.index <= 0 THEN 0 ELSE s.index - 1
           elementsCopy == CopySeq(FilterValid(HistAt(s, previousIndex)), UsedOids(s))
       IN [s EXCEPT !.elements = elementsCopy, !.index = previousIndex]

\* UNDO that also drops the snapshots after the new cursor
UNDO_DropsRedoBranch(s) ==
  IF Len(s.history) = 0 \/ s.index <= 0 THEN s
  ELSE LET previousIndex == s.index - 1
           elementsCopy == CopySeq(FilterValid(HistAt(s, previousIndex)), UsedOids(s))
       IN [s EXCEPT !.elements = elementsCopy, !.index = previousIndex,
                    !.history = SubSeq(s.history, 1, previousIndex + 1)]

\* every snapshot any writer stores is an array, so the malformed-snapshot
\* recovery branches of UNDO and REDO are never entered
UNDO(s) ==
  IF Len(s.history) = 0 \/ s.index <= 0 THEN s
  ELSE LET previousIndex == s.index - 1
           previousElements == HistAt(s, previousIndex)
           elementsCopy == CopySeq(FilterValid(previousElements), UsedOids(s))
       IN [s EXCEPT !.elements = elementsCopy, !.index = previousIndex]

\* REDO that materializes the stored snapshot's own objects, without the copy
REDO_SharesSnapshot(s) ==
  IF Len(s.history) = 0 \/ s.index >= Len(s.history) - 1 THEN s
  ELSE LET nextIndex == s.index + 1
       IN [s EXCEPT !.elements = FilterValid(HistAt(s, nextIndex)),
                    !.index = nextIndex]

REDO(s) ==
  IF Len(s.history) = 0 \/ s.index >= Len(s.history) - 1 THEN s
  ELSE LET nextIndex == s.index + 1
           nextElements == HistAt(s, nextIndex)
           elementsCopy == CopySeq(FilterValid(nextElements), UsedOids(s))
       IN [s EXCEPT !.elements = elementsCopy, !.index = nextIndex]

SET_CANVAS_ID(s, canvasId) == [s EXCEPT !.canvasId = canvasId]

SET_CANVAS_ELEMENTS(s, elements) == [s EXCEPT !.elements = elements]

\* history: [action.payload.elements || []]
SET_HISTORY(s, elements) == [s EXCEPT !.history = <<elements>>, !.index = 0]

SET_USER_LOGIN_STATUS(s, isUserLoggedIn) == [s EXCEPT !.isUserLoggedIn = isUserLoggedIn]

\* BoardProvider's wrappers
setElements(s, elements) == SET_CANVAS_ELEMENTS(s, elements)

setHistory(s, elements) == SET_HISTORY(s, elements)

setCanvasId(s, canvasId) == SET_CANVAS_ID(s, canvasId)

setUserLoginStatus(s, isUserLoggedIn) == SET_USER_LOGIN_STATUS(s, isUserLoggedIn)

\* ------------------------------------------------------------- utils/socket.js
Events == {"receiveDrawingUpdate", "loadCanvas", "unauthorized", "connect"}

NoHandlers == [e \in Events |-> 0]

\* a slot no io() call has used yet
NoSocket ==
  [status |-> "none", token |-> NoToken, handlers |-> NoHandlers,
   awaiting |-> {}, rooms |-> {}, joined |-> {}]

\* trim, and strip a "Bearer " prefix
CleanToken(raw) ==
  CASE raw = NoToken -> NoToken
    [] raw = "Bearer tok1" -> "tok1"
    [] OTHER -> raw

getAuthToken == CleanToken(tokenStore)

\* io(SOCKET_URL, {extraHeaders: ...}): a new connection, not yet connected
NewSocket(token) == [NoSocket EXCEPT !.status = "connecting", !.token = token]

FreeSlot(socks) == CHOOSE i \in 1..MaxSockets :
                     socks[i].status = "none" /\ \A j \in 1..(i - 1) : socks[j].status # "none"

\* socket.disconnect()
Disconnected(socks, i) == [socks EXCEPT ![i].status = "closed"]

IsConnected(socks, i) == socks[i].status = "connected"

\* getSocket would call io()
GetSocketOpens(force) ==
  \/ socketInstance = 0
  \/ force
  \/ ~IsConnected(sockets, socketInstance)

\* getSocket(forceReconnect) on module variable `inst` and connections `socks`:
\* the instance it returns and the connections after it
GetSocketFrom(inst, socks, force) ==
  LET token == getAuthToken
      dropFirst == force /\ inst # 0
      inst1 == IF dropFirst THEN 0 ELSE inst
      socks1 == IF dropFirst THEN Disconnected(socks, inst) ELSE socks
  IN IF inst1 = 0
       THEN LET n == FreeSlot(socks1)
            IN [inst |-> n, socks |-> [socks1 EXCEPT ![n] = NewSocket(token)]]
     ELSE IF ~IsConnected(socks1, inst1)
       THEN LET socks2 == Disconnected(socks1, inst1)
                n == FreeSlot(socks2)
            IN [inst |-> n, socks |-> [socks2 EXCEPT ![n] = NewSocket(token)]]
     ELSE [inst |-> inst1, socks |-> socks1]

getSocket(force) == GetSocketFrom(socketInstance, sockets, force)

\* a reconnectSocket that leaves the connection in place
reconnectSocket_KeepsInstance(inst, socks) == [inst |-> inst, socks |-> socks]

\* reconnectSocket() on module variable `inst` and connections `socks`
reconnectSocket(inst, socks) ==
  IF inst # 0 THEN [inst |-> 0, socks |-> Disconnected(socks, inst)]
  ELSE [inst |-> inst, socks |-> socks]

\* the model opens at most MaxSockets connections
CanGetSocket(force) ==
  GetSocketOpens(force) => \E i \in 1..MaxSockets : sockets[i].status = "none"

\* socket.emit(...) as the server comes to see it: a joinCanvas on a connection
\* that was not closed by the client awaits the server's reply; `joined` keeps
\* the canvases a joinCanvas was ever emitted for on the connection
Emitted(socks, msg) ==
  IF msg.type = "joinCanvas" /\ socks[msg.sock].status # "closed"
    THEN [socks EXCEPT ![msg.sock].awaiting = @ \cup {msg.canvasId},
                       ![msg.sock].joined = @ \cup {msg.canvasId}]
    ELSE socks

JoinMsg(sock, canvasId) ==
  [type |-> "joinCanvas", canvasId |-> canvasId, elements |-> <<>>, sock |-> sock]

\* a drawingUpdate that carries the element last touched instead of the array
UpdateMsg_LastOnly(sock, canvasId, elements) ==
  [type |-> "drawingUpdate", canvasId |-> canvasId,
   elements |-> IF elements = <<>> THEN <<>>
                ELSE StripSeq(<<elements[Len(elements)]>>),
   sock |-> sock]

UpdateMsg(sock, canvasId, elements) ==
  [type |-> "drawingUpdate", canvasId |-> canvasId, elements |-> StripSeq(elements),
   sock |-> sock]

\* ------------------------------------------------------------- steps
\* what a step records of itself: its name and the reducer state it started from
Op(name) ==
  [op |-> name, idx |-> boardState.index, len |-> Len(boardState.history),
   phase |-> boardState.toolActionType]

\* a ref that is written by the socket effect only, never by the ref-sync effect
SyncedRef_SocketEffectOnly(newId, s) == currentCanvasRef

\* the ref-sync effect (deps [id, elements]) after the render that follows a step
SyncedRef(newId, s) ==
  IF newId # NoId THEN [id |-> newId, elements |-> s.elements] ELSE currentCanvasRef

\* a push would grow the history beyond the model's bound
PushFits(s) == s.index + 2 <= MaxHistory

\* setElements([]); setHistory([[]])
ClearedBoard(s) == setHistory(setElements(s, <<>>), <<ArrEntry(<<>>)>>)

\* element lists the server sends (loadCanvas, receiveDrawingUpdate, GET load)
InRect == Obj(RECTANGLE, 0, 1, <<>>, "", 0)
InBrush == Obj(BRUSH, NoPos, NoPos, <<0>>, "", 0)
InNoType == Obj("", 0, 0, <<>>, "", 0)
InStar == Obj("star", 0, 0, <<>>, "", 0)
InPayloads ==
  {[array |-> TRUE, items |-> items] :
     items \in {<<>>, <<InRect, InNoType>>, <<NullEntry, InBrush>>, <<InStar>>}}
    \cup {[array |-> FALSE, items |-> <<>>]}

\* ------------------------------------------------------------- BoardProvider handlers
\* boardMouseDownHandler
boardMouseDownHandler(s, p) ==
  IF s.toolActionType = WRITING THEN s
  ELSE IF s.activeToolItem = ERASER
    THEN CHANGE_ACTION_TYPE(ERASE(s, p), ERASING)
  ELSE DRAW_DOWN(s, p)

\* boardMouseMoveHandler
boardMouseMoveHandler(s, p) ==
  IF s.toolActionType = DRAWING THEN DRAW_MOVE(s, p)
  ELSE IF s.toolActionType = ERASING THEN ERASE(s, p)
  ELSE s

\* a boardMouseUpHandler without the early return of the WRITING phase
boardMouseUpHandler_NoWritingCheck(s) ==
  IF s.toolActionType = DRAWING
    THEN CHANGE_ACTION_TYPE(DRAW_UP(s), NONE)
  ELSE CHANGE_ACTION_TYPE(s, NONE)

\* boardMouseUpHandler
boardMouseUpHandler(s) ==
  IF s.toolActionType = WRITING THEN s
  ELSE IF s.toolActionType = DRAWING
    THEN CHANGE_ACTION_TYPE(DRAW_UP(s), NONE)
  ELSE CHANGE_ACTION_TYPE(s, NONE)

textAreaBlurHandler(s, text) == CHANGE_TEXT(s, text)

boardUndoHandler(s) == UNDO(s)

boardRedoHandler(s) == REDO(s)

\* ------------------------------------------------------------- Board handlers
Running == mounted /\ ~crashed

\* Toolbar click
ChangeTool(tool) ==
  /\ Running
  /\ tool # boardState.activeToolItem
  /\ boardState' = CHANGE_TOOL(boardState, tool)
  /\ sent' = <<>>
  /\ lastOp' = Op("changeTool")
  /\ UNCHANGED <<mounted, id, isAuthorized, currentCanvasRef, unauthorizedRetryCount,
                 sessionSock, socketInstance, sockets, timers, loads, tokenStore, crashed>>
  /\ UNCHANGED <<alerts, refused, sidebar>>

HandleMouseDown(p) ==
  /\ Running
  /\ LET s == boardState
         pushes == s.toolActionType # WRITING /\ s.activeToolItem = ERASER
         appends == s.toolActionType # WRITING /\ s.activeToolItem # ERASER
     IN /\ isAuthorized /\ pushes => PushFits(s)
        /\ isAuthorized /\ appends => Len(s.elements) < MaxElements
        /\ boardState' = IF isAuthorized THEN boardMouseDownHandler(s, p) ELSE s
  /\ currentCanvasRef' = SyncedRef(id, boardState')
  /\ sent' = <<>>
  /\ lastOp' = Op("mouseDown")
  /\ UNCHANGED <<mounted, id, isAuthorized, unauthorizedRetryCount, sessionSock,
                 socketInstance, sockets, timers, loads, tokenStore, crashed>>
  /\ UNCHANGED <<alerts, refused, sidebar>>

\* the part of handleMouseMove and handleMouseUp after the board handler:
\* getSocket() and the broadcast of the `elements` of the current render
Broadcast ==
  /\ CanGetSocket(FALSE)
  /\ LET g == getSocket(FALSE)
     IN /\ socketInstance' = g.inst
        /\ sockets' = g.socks
        /\ sent' = <<UpdateMsg(g.inst, id, boardState.elements)>>

NoBroadcast ==
  /\ sent' = <<>>
  /\ UNCHANGED <<socketInstance, sockets>>

HandleMouseMove(p) ==
  /\ Running
  /\ IF ~isAuthorized
       THEN /\ NoBroadcast
            /\ UNCHANGED <<boardState, crashed>>
       ELSE /\ Broadcast
            /\ LET s == boardState
                   throws == s.toolActionType = DRAWING /\ DRAW_MOVE_Throws(s)
               IN /\ (s.toolActionType = ERASING) => PushFits(s)
                  /\ (s.toolActionType = DRAWING /\ ~throws
                        /\ s.elements[Len(s.elements)].type = BRUSH)
                       => Len(s.elements[Len(s.elements)].points) < MaxPoints
                  /\ crashed' = throws
                  /\ boardState' = IF throws THEN s ELSE boardMouseMoveHandler(s, p)
  /\ currentCanvasRef' = SyncedRef(id, boardState')
  /\ lastOp' = Op("mouseMove")
  /\ UNCHANGED <<mounted, id, isAuthorized, unauthorizedRetryCount, sessionSock,
                 timers, loads, tokenStore>>
  /\ UNCHANGED <<alerts, refused, sidebar>>

HandleMouseUp ==
  /\ Running
  /\ IF ~isAuthorized
       THEN /\ NoBroadcast
            /\ UNCHANGED boardState
       ELSE /\ Broadcast
            /\ (boardState.toolActionType = DRAWING) => PushFits(boardState)
            /\ boardState' = boardMouseUpHandler(boardState)
  /\ currentCanvasRef' = SyncedRef(id, boardState')
  /\ lastOp' = Op("mouseUp")
  /\ UNCHANGED <<mounted, id, isAuthorized, unauthorizedRetryCount, sessionSock,
                 timers, loads, tokenStore, crashed>>
  /\ UNCHANGED <<alerts, refused, sidebar>>

\* handleKeyDown: Ctrl+Z
KeyUndo ==
  /\ Running
  /\ boardState' = boardUndoHandler(boardState)
  /\ currentCanvasRef' = SyncedRef(id, boardState')
  /\ sent' = <<>>
  /\ lastOp' = Op("undo")
  /\ UNCHANGED <<mounted, id, isAuthorized, unauthorizedRetryCount, sessionSock,
                 socketInstance, sockets, timers, loads, tokenStore, crashed>>
  /\ UNCHANGED <<alerts, refused, sidebar>>

\* handleKeyDown: Ctrl+Y
KeyRedo ==
  /\ Running
  /\ boardState' = boardRedoHandler(boardState)
  /\ currentCanvasRef' = SyncedRef(id, boardState')
  /\ sent' = <<>>
  /\ lastOp' = Op("redo")
  /\ UNCHANGED <<mounted, id, isAuthorized, unauthorizedRetryCount, sessionSock,
                 socketInstance, sockets, timers, loads, tokenStore, crashed>>
  /\ UNCHANGED <<alerts, refused, sidebar>>

\* the textarea is rendered when isWriting && lastElement
TextAreaShown ==
  /\ boardState.toolActionType = WRITING
  /\ Len(boardState.elements) > 0
  /\ boardState.elements[Len(boardState.elements)].kind # "null"

\* onBlur of the textarea
TextAreaBlur(text) ==
  /\ Running
  /\ TextAreaShown
  /\ ~CHANGE_TEXT_NoOp(boardState) => PushFits(boardState)
  /\ boardState' = textAreaBlurHandler(boardState, text)
  /\ currentCanvasRef' = SyncedRef(id, boardState')
  /\ sent' = <<>>
  /\ lastOp' = Op("blur")
  /\ UNCHANGED <<mounted, id, isAuthorized, unauthorizedRetryCount, sessionSock,
                 socketInstance, sockets, timers, loads, tokenStore, crashed>>
  /\ UNCHANGED <<alerts, refused, sidebar>>

\* ------------------------------------------------------------- Sidebar
\* Sidebar's useState values error, success and canvases; its pending
\* clearMessage timers; its requests in flight, each with the canvasId and id of
\* the render whose handler sent it; the time in seconds.  `since` and `delay`
\* record of the banner last set when it was set and the delay of the timer
\* started for it (0: none).
InitialSidebar ==
  [error |-> "", success |-> "", canvases |-> <<>>, timers |-> {}, now |-> 0,
   requests |-> {},
   since |-> [error |-> 0, success |-> 0], delay |-> [error |-> 0, success |-> 0]]

\* clearMessage's default timeout, and the timeout handleCreateCanvas passes
DefaultTimeout == 5
CreateTimeout == 3

EnterEmail == "Please enter an email."
LoginFirst == "Please login first"
NoIdReturned == "Failed to create canvas: No ID returned"
Created == "Canvas created successfully!"
ServerMessage == "server message"
ServerError == "server error"

Emails == {"", "a@b.c"}

\* the canvas lists GET /list answers with
CanvasLists == {<<>>, <<"A">>, <<"B">>, <<"B", "A">>}

\* the Sidebar's getToken
getToken == CleanToken(tokenStore)

setError(sb, text) ==
  [sb EXCEPT !.error = text, !.since.error = sb.now, !.delay.error = 0]

setSuccess(sb, text) ==
  [sb EXCEPT !.success = text, !.since.success = sb.now, !.delay.success = 0]

setCanvases(sb, list) == [sb EXCEPT !.canvases = list]

BannerTimer(setter, due) == [setter |-> setter, due |-> due]

\* clearMessage(setter, timeout): setTimeout(() => setter(''), timeout)
clearMessage(sb, setter, timeout) ==
  [sb EXCEPT !.timers = @ \cup {BannerTimer(setter, sb.now + timeout)},
             !.delay[setter] = timeout]

\* a request sent by a handler of the current render; `outer` holds the ids of
\* the canvases created by the handleCreateCanvas calls that are suspended at
\* `await fetchCanvases()` until this request's caller returns, outermost first
Request(op, c) ==
  [op |-> op, c |-> c, canvasId |-> boardState.canvasId, id |-> id, outer |-> <<>>]

Requested(sb, req) == [sb EXCEPT !.requests = @ \cup {req}]

\* handleShare up to its await
handleShare(sb, email, token, req) ==
  IF email = "" THEN setError(sb, EnterEmail)
  ELSE LET sb1 == setSuccess(setError(sb, ""), "")
       IN IF token = NoToken THEN setError(sb1, LoginFirst)
          ELSE Requested(sb1, req)

\* handleShare after its await
onShareResponse(sb, ok) ==
  IF ok THEN clearMessage(setSuccess(sb, ServerMessage), "success", DefaultTimeout)
  ELSE clearMessage(setError(sb, ServerError), "error", DefaultTimeout)

\* handleCreateCanvas up to its await
handleCreateCanvas(sb, token, req) ==
  IF token = NoToken
    THEN clearMessage(setError(sb, LoginFirst), "error", CreateTimeout)
    ELSE Requested(sb, req)

\* handleDeleteCanvas up to its await
handleDeleteCanvas(sb, token, req) ==
  IF token = NoToken THEN setError(sb, LoginFirst) ELSE Requested(sb, req)

\* fetchCanvases up to its await
fetchCanvases(sb, token, req) ==
  IF token = NoToken THEN sb ELSE Requested(sb, req)

\* the effect on [isUserLoggedIn] of a Sidebar that mounts
SidebarMounted(sb, isUserLoggedIn, token, req) ==
  IF isUserLoggedIn THEN fetchCanvases(sb, token, req) ELSE sb

\* the Sidebar leaves the screen: its state is gone and its timers find nothing
\* to clear
SidebarUnmounted(sb) ==
  [sb EXCEPT !.error = "", !.success = "", !.canvases = <<>>, !.timers = {}]

\* ------------------------------------------------------------- Board effects
\* a cleanup that removes no listener
Cleanup_KeepsListeners(socks) == socks

\* the cleanup the socket effect returned: socket.off(...) of the four events on
\* the connection that effect run captured
Cleanup(socks) ==
  IF mounted /\ id # NoId /\ sessionSock # 0
    THEN [socks EXCEPT ![sessionSock].handlers = NoHandlers]
    ELSE socks

\* socket.on(...) of the session's listeners; "connect" only when not connected
Registered(socks, sock) ==
  [socks EXCEPT ![sock].handlers =
     [e \in Events |->
        IF e = "connect" /\ IsConnected(socks, sock) THEN @[e] ELSE @[e] + 1]]

JoinTimer(sock, canvasId) == [kind |-> "join", canvasId |-> canvasId, sock |-> sock]

RetryTimer(sock, canvasId) == [kind |-> "retry", canvasId |-> canvasId, sock |-> sock]

\* joinCanvasRoom(): setTimeout(() => socket.emit("joinCanvas", ...), 300)
joinCanvasRoom(tm, sock, canvasId) == tm (+) SetToBag({JoinTimer(sock, canvasId)})

\* a socket effect run whose handleUnauthorized has not run yet: the unauthorized
\* events it received and the retry timers it armed
NoRefusals == [events |-> 0, retries |-> 0]

\* A render of Board with a new id (or its first render): the previous socket
\* effect's cleanup, then the socket effect, the ref-sync effect and
\* loadCanvasFromAPI up to its await, then the render of the state they set.
NavigateWith(s, newId, name) ==
  /\ ~crashed
  /\ mounted' = TRUE
  /\ id' = newId
  /\ boardState' = ClearedBoard(s)
  /\ lastOp' = Op(name)
  /\ UNCHANGED crashed
  /\ IF newId = NoId
       THEN /\ sockets' = Cleanup(sockets)
            /\ sessionSock' = 0
            /\ unauthorizedRetryCount' = 0
            /\ sent' = <<>>
            /\ UNCHANGED <<socketInstance, isAuthorized, timers, loads, currentCanvasRef>>
       ELSE /\ CanGetSocket(FALSE)
            /\ LET g == GetSocketFrom(socketInstance, Cleanup(sockets), FALSE)
                   socket == g.inst
                   prev == currentCanvasRef
                   connected == IsConnected(g.socks, socket)
                   token == getAuthToken
               IN /\ socketInstance' = socket
                  /\ sessionSock' = socket
                  /\ sent' = IF prev.id # NoId /\ prev.id # newId
                               THEN <<UpdateMsg(socket, prev.id, prev.elements)>>
                               ELSE <<>>
                  /\ sockets' = Registered(g.socks, socket)
                  /\ connected => BagCardinality(timers) < MaxTimers
                  /\ timers' = IF connected THEN joinCanvasRoom(timers, socket, newId)
                               ELSE timers
                  /\ token # NoToken => BagCardinality(loads) < MaxLoads
                  /\ loads' = IF token # NoToken THEN loads (+) SetToBag({newId}) ELSE loads
            /\ isAuthorized' = TRUE
            /\ unauthorizedRetryCount' = 0
            /\ currentCanvasRef' = [id |-> newId, elements |-> <<>>]
  /\ refused' = NoRefusals
  /\ UNCHANGED alerts

\* the user opens a canvas, or the home page, by its address
Navigate(newId) ==
  /\ ~mounted \/ newId # id
  /\ NavigateWith(boardState, newId, "navigate")
  /\ UNCHANGED tokenStore
  /\ sidebar' = IF mounted THEN sidebar
                ELSE SidebarMounted(sidebar, boardState.isUserLoggedIn, getToken,
                                    [Request("fetch", NoId) EXCEPT !.id = newId])

\* ------------------------------------------------------------- socket events
\* a receiveDrawingUpdate listener that seeds the history as loadCanvas does
onReceiveDrawingUpdate_SeedsHistory(s, payload) ==
  IF payload.array
    THEN LET validElements == CopySeq(FilterValid(payload.items), UsedOids(s))
         IN setHistory(setElements(s, validElements), <<ArrEntry(validElements)>>)
    ELSE s

\* the listener of "receiveDrawingUpdate"
onReceiveDrawingUpdate(s, payload) ==
  IF payload.array
    THEN setElements(s, CopySeq(FilterValid(payload.items), UsedOids(s)))
    ELSE s

\* the listener of "loadCanvas"
onLoadCanvas(s, payload) ==
  IF payload.array
    THEN LET validElements == CopySeq(FilterValid(payload.items), UsedOids(s))
         IN setHistory(setElements(s, validElements), <<ArrEntry(validElements)>>)
    ELSE s

\* `n` registered listeners of an event each run once
RECURSIVE Times(_, _, _, _)
Times(n, F(_, _), s, payload) ==
  IF n = 0 THEN s ELSE Times(n - 1, F, F(s, payload), payload)

\* the transport reports the connection established: the "connect" listeners run
SocketConnect(k) ==
  /\ ~crashed
  /\ sockets[k].status \in {"connecting", "dropped"}
  /\ LET n == sockets[k].handlers["connect"]
     IN /\ BagCardinality(timers) + n <= MaxTimers
        /\ timers' = IF n = 0 THEN timers
                     ELSE IF n = 1 THEN joinCanvasRoom(timers, k, id)
                     ELSE joinCanvasRoom(joinCanvasRoom(timers, k, id), k, id)
  /\ sockets' = [sockets EXCEPT ![k].status = "connected"]
  /\ sent' = <<>>
  /\ lastOp' = Op("connect")
  /\ UNCHANGED <<boardState, mounted, id, isAuthorized, currentCanvasRef,
                 unauthorizedRetryCount, sessionSock, socketInstance, loads,
                 tokenStore, crashed>>
  /\ UNCHANGED <<alerts, refused, sidebar>>

\* the transport drops; socket.io reconnects by itself (reconnection: true)
SocketDrop(k) ==
  /\ ~crashed
  /\ sockets[k].status = "connected"
  /\ sockets' = [sockets EXCEPT ![k].status = "dropped", ![k].rooms = {}]
  /\ sent' = <<>>
  /\ lastOp' = Op("drop")
  /\ UNCHANGED <<boardState, mounted, id, isAuthorized, currentCanvasRef,
                 unauthorizedRetryCount, sessionSock, socketInstance, timers, loads,
                 tokenStore, crashed>>
  /\ UNCHANGED <<alerts, refused, sidebar>>

\* a peer's drawingUpdate reaches a room this connection has joined
ReceiveDrawingUpdate(k, payload) ==
  /\ ~crashed
  /\ IsConnected(sockets, k)
  /\ sockets[k].rooms # {}
  /\ boardState' = Times(sockets[k].handlers["receiveDrawingUpdate"],
                         onReceiveDrawingUpdate, boardState, payload)
  /\ currentCanvasRef' = SyncedRef(id, boardState')
  /\ sent' = <<>>
  /\ lastOp' = Op("receiveDrawingUpdate")
  /\ UNCHANGED <<mounted, id, isAuthorized, unauthorizedRetryCount, sessionSock,
                 socketInstance, sockets, timers, loads, tokenStore, crashed>>
  /\ UNCHANGED <<alerts, refused, sidebar>>

\* the server accepts a joinCanvas for canvas c and sends the canvas
LoadCanvas(k, c, payload) ==
  /\ ~crashed
  /\ IsConnected(sockets, k)
  /\ c \in sockets[k].awaiting
  /\ sockets' = [sockets EXCEPT ![k].awaiting = @ \ {c}, ![k].rooms = @ \cup {c}]
  /\ boardState' = Times(sockets[k].handlers["loadCanvas"], onLoadCanvas,
                         boardState, payload)
  /\ currentCanvasRef' = SyncedRef(id, boardState')
  /\ sent' = <<>>
  /\ lastOp' = Op("loadCanvas")
  /\ UNCHANGED <<mounted, id, isAuthorized, unauthorizedRetryCount, sessionSock,
                 socketInstance, timers, loads, tokenStore, crashed>>
  /\ UNCHANGED <<alerts, refused, sidebar>>

\* alert("Access Denied: You cannot edit this canvas.")
AccessDenied == "Access Denied"

\* a handleUnauthorized that retries the join on every refusal
handleUnauthorized_AlwaysRetries(count) ==
  [count |-> count + 1, retry |-> TRUE, denied |-> FALSE]

\* a handleUnauthorized that denies on every refusal, the first included
handleUnauthorized_DeniesAtOnce(count) ==
  [count |-> count, retry |-> FALSE, denied |-> TRUE]

\* handleUnauthorized's decision on the closure's counter
handleUnauthorized(count) ==
  IF count = 0
    THEN [count |-> count + 1, retry |-> TRUE, denied |-> FALSE]
    ELSE [count |-> count, retry |-> FALSE, denied |-> TRUE]

\* the server refuses a joinCanvas for canvas c: the "unauthorized" listener runs
Unauthorized(k, c) ==
  /\ ~crashed
  /\ IsConnected(sockets, k)
  /\ c \in sockets[k].awaiting
  /\ sockets' = [sockets EXCEPT ![k].awaiting = @ \ {c}]
  /\ IF sockets[k].handlers["unauthorized"] = 0
       THEN UNCHANGED <<unauthorizedRetryCount, timers, isAuthorized, alerts, refused>>
       ELSE LET h == handleUnauthorized(unauthorizedRetryCount)
            IN /\ h.retry => BagCardinality(timers) < MaxTimers
               /\ h.denied => Len(alerts) < MaxAlerts
               /\ unauthorizedRetryCount' = h.count
               /\ timers' = IF h.retry
                              THEN timers (+) SetToBag({RetryTimer(sessionSock, id)})
                              ELSE timers
               /\ alerts' = IF h.denied THEN Append(alerts, AccessDenied) ELSE alerts
               /\ isAuthorized' = IF h.denied THEN FALSE ELSE isAuthorized
               /\ refused' = [events |-> refused.events + 1,
                              retries |-> refused.retries + IF h.retry THEN 1 ELSE 0]
  /\ sent' = <<>>
  /\ lastOp' = Op("unauthorized")
  /\ UNCHANGED <<boardState, mounted, id, currentCanvasRef, sessionSock,
                 socketInstance, loads, tokenStore, crashed, sidebar>>

\* a setTimeout callback runs: socket.emit("joinCanvas", {canvasId: id}) with the
\* socket and id of the effect run that created it
TimerFires(t) ==
  /\ ~crashed
  /\ BagIn(t, timers)
  /\ timers' = timers (-) SetToBag({t})
  /\ sent' = <<JoinMsg(t.sock, t.canvasId)>>
  /\ sockets' = Emitted(sockets, JoinMsg(t.sock, t.canvasId))
  /\ lastOp' = Op(t.kind)
  /\ UNCHANGED <<boardState, mounted, id, isAuthorized, currentCanvasRef,
                 unauthorizedRetryCount, sessionSock, socketInstance, loads,
                 tokenStore, crashed>>
  /\ UNCHANGED <<alerts, refused, sidebar>>

\* ------------------------------------------------------------- REST load
\* loadCanvasFromAPI after its await: the response of GET load/{c}
onLoadResponse(s, c, payload) ==
  LET canvasElements == CopySeq(FilterValid(payload.items), UsedOids(s))
  IN setHistory(setElements(setCanvasId(s, c), canvasElements),
                <<ArrEntry(canvasElements)>>)

\* axios.get resolves; `elements` that are not an array make .filter throw into
\* the catch, a missing `elements` loads []
LoadResolves(c, payload) ==
  /\ ~crashed
  /\ BagIn(c, loads)
  /\ loads' = loads (-) SetToBag({c})
  /\ boardState' = IF payload.array THEN onLoadResponse(boardState, c, payload)
                   ELSE boardState
  /\ currentCanvasRef' = SyncedRef(id, boardState')
  /\ sent' = <<>>
  /\ lastOp' = Op("loadResolves")
  /\ UNCHANGED <<mounted, id, isAuthorized, unauthorizedRetryCount, sessionSock,
                 socketInstance, sockets, timers, tokenStore, crashed>>
  /\ UNCHANGED <<alerts, refused, sidebar>>

\* axios.get rejects: the catch logs and nothing else
LoadRejects(c) ==
  /\ ~crashed
  /\ BagIn(c, loads)
  /\ loads' = loads (-) SetToBag({c})
  /\ sent' = <<>>
  /\ lastOp' = Op("loadRejects")
  /\ UNCHANGED <<boardState, mounted, id, isAuthorized, currentCanvasRef,
                 unauthorizedRetryCount, sessionSock, socketInstance, sockets, timers,
                 tokenStore, crashed>>
  /\ UNCHANGED <<alerts, refused, sidebar>>

\* ------------------------------------------------------------- login
\* Board leaves the screen: its socket effect's cleanup runs; its ref and its
\* useState values are gone
Unmounted ==
  /\ mounted' = FALSE
  /\ id' = NoId
  /\ sockets' = Cleanup(sockets)
  /\ sessionSock' = 0
  /\ isAuthorized' = TRUE
  /\ unauthorizedRetryCount' = 0
  /\ refused' = NoRefusals
  /\ currentCanvasRef' = [id |-> NoId, elements |-> <<>>]

\* Sidebar's Login button (shown when not logged in): navigate('/login')
HandleLogin ==
  /\ Running
  /\ ~boardState.isUserLoggedIn
  /\ Unmounted
  /\ sent' = <<>>
  /\ lastOp' = Op("openLogin")
  /\ sidebar' = SidebarUnmounted(sidebar)
  /\ UNCHANGED <<boardState, socketInstance, timers, loads, tokenStore, crashed, alerts>>

\* alert(data.message || 'Login failed'), 'Login successful but no token
\* received', 'An error occurred during login'
LoginAlert == "Login"

\* Login's handleSubmit after its awaits, the server accepting with `token`:
\* the token is stored, reconnectSocket(), setUserLoginStatus(true),
\* navigate('/') and the first render of Board without id
LoginSucceeds(token) ==
  /\ ~mounted /\ ~crashed
  /\ tokenStore' = token
  /\ LET r == reconnectSocket(socketInstance, sockets)
     IN socketInstance' = r.inst /\ sockets' = r.socks
  /\ boardState' = ClearedBoard(setUserLoginStatus(boardState, TRUE))
  /\ mounted' = TRUE
  /\ sent' = <<>>
  /\ lastOp' = Op("login")
  /\ sidebar' = SidebarMounted(sidebar, TRUE, CleanToken(token), Request("fetch", NoId))
  /\ UNCHANGED <<id, isAuthorized, currentCanvasRef, unauthorizedRetryCount,
                 sessionSock, timers, loads, crashed, alerts, refused>>

\* Login's handleSubmit after its awaits on every other path: an alert
LoginFails ==
  /\ ~mounted /\ ~crashed
  /\ Len(alerts) < MaxAlerts
  /\ alerts' = Append(alerts, LoginAlert)
  /\ sent' = <<>>
  /\ lastOp' = Op("loginFails")
  /\ UNCHANGED <<boardState, mounted, id, isAuthorized, currentCanvasRef,
                 unauthorizedRetryCount, sessionSock, socketInstance, sockets, timers,
                 loads, tokenStore, crashed, refused, sidebar>>

\* ------------------------------------------------------------- Sidebar handlers
\* a step of the sidebar that leaves the Board and the connection alone
BoardIdle(name) ==
  /\ sent' = <<>>
  /\ lastOp' = Op(name)
  /\ UNCHANGED <<boardState, mounted, id, isAuthorized, currentCanvasRef,
                 unauthorizedRetryCount, sessionSock, socketInstance, sockets, timers,
                 loads, tokenStore, crashed, alerts, refused>>

\* navigate(target) from a sidebar handler that left the reducer state s: the
\* Board renders with a new id unless target is the address shown
SidebarNavigate(s, target, name) ==
  IF target = id
    THEN /\ boardState' = s
         /\ sent' = <<>>
         /\ lastOp' = Op(name)
         /\ UNCHANGED <<mounted, id, isAuthorized, currentCanvasRef,
                        unauthorizedRetryCount, sessionSock, socketInstance, sockets,
                        timers, loads, tokenStore, crashed, alerts, refused>>
    ELSE /\ NavigateWith(s, target, name)
         /\ UNCHANGED tokenStore

CanRequest == Cardinality(sidebar.requests) < MaxRequests

Answered(sb, r) == [sb EXCEPT !.requests = @ \ {r}]

\* the Share button (enabled when logged in) with `email` in the input
ShareClick(email) ==
  /\ Running /\ boardState.isUserLoggedIn
  /\ CanRequest
  /\ sidebar' = handleShare(sidebar, email, getToken, Request("share", NoId))
  /\ BoardIdle("share")

\* PUT share/{canvasId} is answered
ShareAnswered(r, ok) ==
  /\ Running
  /\ r \in sidebar.requests /\ r.op = "share"
  /\ sidebar' = onShareResponse(Answered(sidebar, r), ok)
  /\ BoardIdle("shareAnswered")

\* the Create button (enabled when logged in)
CreateClick ==
  /\ Running /\ boardState.isUserLoggedIn
  /\ CanRequest
  /\ sidebar' = handleCreateCanvas(sidebar, getToken, Request("create", NoId))
  /\ BoardIdle("create")

\* what the fetchCanvases() awaited inside a handler returns: the list, or []
\* after a failure
Fetched(list) == [ok |-> TRUE, list |-> list]
FetchFailed == [ok |-> FALSE, list |-> <<>>]

InList(c, list) == \E i \in 1..Len(list) : list[i] = c

\* handleCreateCanvas from its refresh on: setCanvasId, handleCanvasClick,
\* setSuccess and clearMessage
Resumed(sb) == clearMessage(setSuccess(sb, Created), "success", CreateTimeout)

\* the suspended handleCreateCanvas calls `outer` resume one after the other,
\* innermost first, once the call they await has returned
Unwound(sb, outer) == IF outer = <<>> THEN sb ELSE Resumed(sb)

\* POST create resolves with canvas id newId (NoId: none in the response) and
\* the GET list of the awaited fetchCanvases() is answered by f.  An empty list
\* makes that fetchCanvases() call handleCreateCanvas() again, which sends
\* another POST create while this call stays suspended; any other answer lets
\* this call and the suspended ones resume; their navigations (fetchCanvases
\* selecting list[0], then each call's own canvas) render once, at the canvas of
\* the call that resumes last, the outermost
CreateResolves(r, newId, f) ==
  /\ Running
  /\ r \in sidebar.requests /\ r.op = "create"
  /\ ~InList(newId, r.outer)
  /\ LET sb == Answered(sidebar, r)
         calls == Append(r.outer, newId)
     IN IF newId = NoId
          THEN /\ f = FetchFailed
               /\ sidebar' = Unwound(setError(sb, NoIdReturned), r.outer)
               /\ IF r.outer = <<>> THEN BoardIdle("createResolves")
                  ELSE SidebarNavigate(setCanvasId(boardState, r.outer[1]), r.outer[1],
                                       "createResolves")
        ELSE IF f = Fetched(<<>>) /\ getToken # NoToken
          THEN /\ Len(r.outer) < MaxNesting
               /\ sidebar' = handleCreateCanvas(setCanvases(sb, <<>>), getToken,
                                                [r EXCEPT !.outer = calls])
               /\ BoardIdle("createResolves")
        ELSE /\ f.ok => (f.list = <<>> \/ InList(newId, f.list))
             /\ LET sb1 == IF ~f.ok THEN sb
                           ELSE IF f.list = <<>>
                             THEN handleCreateCanvas(setCanvases(sb, <<>>), getToken, r)
                           ELSE setCanvases(sb, f.list)
                IN sidebar' = Resumed(sb1)
             /\ SidebarNavigate(setCanvasId(boardState, calls[1]), calls[1],
                                "createResolves")

\* POST create rejects
CreateRejects(r) ==
  /\ Running
  /\ r \in sidebar.requests /\ r.op = "create"
  /\ sidebar' = Unwound(clearMessage(setError(Answered(sidebar, r), ServerError),
                                     "error", DefaultTimeout), r.outer)
  /\ IF r.outer = <<>> THEN BoardIdle("createRejects")
     ELSE SidebarNavigate(setCanvasId(boardState, r.outer[1]), r.outer[1],
                          "createRejects")

\* the del button of canvas c of the list
DeleteClick(c) ==
  /\ Running
  /\ InList(c, sidebar.canvases)
  /\ CanRequest
  /\ sidebar' = handleDeleteCanvas(sidebar, getToken, Request("delete", c))
  /\ BoardIdle("delete")

\* DELETE delete/{c} resolves and the awaited fetchCanvases() returns f (a list
\* that still holds a canvas, or [] after a failure)
DeleteResolves(r, f) ==
  /\ Running
  /\ r \in sidebar.requests /\ r.op = "delete"
  /\ f.ok => (f.list # <<>> /\ ~InList(r.c, f.list))
  /\ LET sb == Answered(sidebar, r)
         deletedCurrent == r.c = r.canvasId
         selectsFirst == f.ok /\ r.canvasId = "" /\ r.id = NoId
         s1 == IF selectsFirst THEN setCanvasId(boardState, f.list[1]) ELSE boardState
         s2 == IF ~deletedCurrent THEN s1
               ELSE IF f.ok THEN setCanvasId(s1, f.list[1])
               ELSE setCanvasId(s1, "")
         target == IF deletedCurrent THEN (IF f.ok THEN f.list[1] ELSE NoId)
                   ELSE IF selectsFirst THEN f.list[1]
                   ELSE id
     IN /\ sidebar' = IF f.ok THEN setCanvases(sb, f.list) ELSE sb
        /\ SidebarNavigate(s2, target, "deleteResolves")

\* DELETE delete/{c} rejects
DeleteRejects(r) ==
  /\ Running
  /\ r \in sidebar.requests /\ r.op = "delete"
  /\ sidebar' = clearMessage(setError(Answered(sidebar, r), ServerError), "error",
                             DefaultTimeout)
  /\ BoardIdle("deleteRejects")

\* GET list of the mount effect's fetchCanvases() resolves
FetchResolves(r, list) ==
  /\ Running
  /\ r \in sidebar.requests /\ r.op = "fetch"
  /\ LET sb == setCanvases(Answered(sidebar, r), list)
     IN IF list = <<>>
          THEN /\ sidebar' = handleCreateCanvas(sb, getToken,
                                                [r EXCEPT !.op = "create"])
               /\ BoardIdle("fetchResolves")
          ELSE IF r.canvasId = "" /\ r.id = NoId
            THEN /\ sidebar' = sb
                 /\ SidebarNavigate(setCanvasId(boardState, list[1]), list[1],
                                    "fetchResolves")
          ELSE /\ sidebar' = sb
               /\ BoardIdle("fetchResolves")

\* GET list rejects
FetchRejects(r) ==
  /\ Running
  /\ r \in sidebar.requests /\ r.op = "fetch"
  /\ sidebar' = Answered(sidebar, r)
  /\ BoardIdle("fetchRejects")

\* the Logout button (shown when logged in)
HandleLogout ==
  /\ Running /\ boardState.isUserLoggedIn
  /\ tokenStore' = NoToken
  /\ sidebar' = setCanvases(sidebar, <<>>)
  /\ LET s == setUserLoginStatus(boardState, FALSE)
     IN IF id = NoId
          THEN /\ boardState' = s
               /\ sent' = <<>>
               /\ lastOp' = Op("logout")
               /\ UNCHANGED <<mounted, id, isAuthorized, currentCanvasRef,
                              unauthorizedRetryCount, sessionSock, socketInstance,
                              sockets, timers, loads, crashed, alerts, refused>>
          ELSE NavigateWith(s, NoId, "logout")

\* a clearMessage timer runs: setter('')
BannerTimerFires(t) ==
  /\ t \in sidebar.timers /\ t.due <= sidebar.now
  /\ sidebar' = [sidebar EXCEPT ![t.setter] = "", !.timers = @ \ {t}]
  /\ BoardIdle("bannerTimer")

\* d seconds pass, no timer being due before their end
TimePasses(d) ==
  /\ sidebar.now + d <= MaxTime
  /\ \A t \in sidebar.timers : t.due >= sidebar.now + d
  /\ sidebar' = [sidebar EXCEPT !.now = @ + d]
  /\ BoardIdle("timePasses")

\* ------------------------------------------------------------- specification
Init ==
  /\ tokenStore \in {NoToken} \cup Tokens
  /\ boardState = initialBoardState
  /\ mounted = FALSE
  /\ id = NoId
  /\ isAuthorized = TRUE
  /\ currentCanvasRef = [id |-> NoId, elements |-> <<>>]
  /\ unauthorizedRetryCount = 0
  /\ sessionSock = 0
  /\ socketInstance = 0
  /\ sockets = [k \in 1..MaxSockets |-> NoSocket]
  /\ timers = EmptyBag
  /\ loads = EmptyBag
  /\ crashed = FALSE
  /\ sent = <<>>
  /\ alerts = <<>>
  /\ refused = NoRefusals
  /\ sidebar = InitialSidebar
  /\ lastOp = [op |-> "init", idx |-> 0, len |-> 1, phase |-> NONE]
  /\ steps = 0

\* a run takes at most n steps
Tick(n) == steps < n /\ steps' = steps + 1

Next ==
  \/ \E tool \in ToolChoices : Tick(MaxSteps) /\ ChangeTool(tool)
  \/ \E p \in Positions : Tick(MaxSteps) /\ HandleMouseDown(p)
  \/ \E p \in Positions : Tick(MaxSteps) /\ HandleMouseMove(p)
  \/ Tick(MaxSteps) /\ HandleMouseUp
  \/ Tick(MaxSteps) /\ KeyUndo
  \/ Tick(MaxSteps) /\ KeyRedo
  \/ \E text \in Texts : Tick(MaxSteps) /\ TextAreaBlur(text)
  \/ \E newId \in CanvasIds \cup {NoId} : Tick(MaxSteps) /\ Navigate(newId)
  \/ \E k \in 1..MaxSockets : Tick(MaxSteps) /\ SocketConnect(k)
  \/ \E k \in 1..MaxSockets : Tick(MaxSteps) /\ SocketDrop(k)
  \/ \E k \in 1..MaxSockets, payload \in InPayloads :
       Tick(MaxSteps) /\ ReceiveDrawingUpdate(k, payload)
  \/ \E k \in 1..MaxSockets, c \in CanvasIds, payload \in InPayloads :
       Tick(MaxSteps) /\ LoadCanvas(k, c, payload)
  \/ \E k \in 1..MaxSockets, c \in CanvasIds : Tick(MaxSteps) /\ Unauthorized(k, c)
  \/ \E t \in BagToSet(timers) : Tick(MaxSteps) /\ TimerFires(t)
  \/ \E c \in CanvasIds, payload \in InPayloads : Tick(MaxSteps) /\ LoadResolves(c, payload)
  \/ \E c \in CanvasIds : Tick(MaxSteps) /\ LoadRejects(c)
  \/ Tick(MaxSteps) /\ HandleLogin
  \/ \E token \in Tokens : Tick(MaxSteps) /\ LoginSucceeds(token)
  \/ Tick(MaxSteps) /\ LoginFails

Spec == Init /\ [][Next]_vars

\* ------------------------------------------------------------- one canvas session
\* The board of one canvas session, followed further: the user opens canvas "A",
\* works once the connection is established, starts strokes at position 0 and
\* changes tools between gestures.
SessionReady == sessionSock # 0 /\ IsConnected(sockets, sessionSock)

NextBoard ==
  \/ \E tool \in ToolChoices :
       /\ SessionReady /\ boardState.toolActionType = NONE
       /\ Tick(MaxBoardSteps) /\ ChangeTool(tool)
  \/ \E p \in Positions :
       /\ SessionReady /\ (boardState.activeToolItem # ERASER => p = 0)
       /\ Tick(MaxBoardSteps) /\ HandleMouseDown(p)
  \/ \E p \in Positions : SessionReady /\ Tick(MaxBoardSteps) /\ HandleMouseMove(p)
  \/ SessionReady /\ Tick(MaxBoardSteps) /\ HandleMouseUp
  \/ SessionReady /\ Tick(MaxBoardSteps) /\ KeyUndo
  \/ SessionReady /\ Tick(MaxBoardSteps) /\ KeyRedo
  \/ \E text \in Texts : SessionReady /\ Tick(MaxBoardSteps) /\ TextAreaBlur(text)
  \/ ~mounted /\ Tick(MaxBoardSteps) /\ Navigate("A")
  \/ \E k \in 1..MaxSockets : Tick(MaxBoardSteps) /\ SocketConnect(k)
  \/ \E k \in 1..MaxSockets, payload \in InPayloads :
       Tick(MaxBoardSteps) /\ ReceiveDrawingUpdate(k, payload)
  \/ \E k \in 1..MaxSockets, payload \in InPayloads :
       Tick(MaxBoardSteps) /\ LoadCanvas(k, "A", payload)
  \/ \E t \in BagToSet(timers) : Tick(MaxBoardSteps) /\ TimerFires(t)
  \/ \E payload \in InPayloads : Tick(MaxBoardSteps) /\ LoadResolves("A", payload)

SpecBoard == Init /\ [][NextBoard]_vars

\* ------------------------------------------------------------- one session's join
\* One canvas session followed through its join protocol: the user opens canvas
\* "A" and stays on it; the transport connects and drops, the join and retry
\* timers fire, the server accepts or refuses the join, and the user moves the
\* pointer at any moment.
NextSession ==
  \/ ~mounted /\ Tick(MaxSessionSteps) /\ Navigate("A")
  \/ \E k \in 1..MaxSockets : Tick(MaxSessionSteps) /\ SocketConnect(k)
  \/ \E k \in 1..MaxSockets : Tick(MaxSessionSteps) /\ SocketDrop(k)
  \/ \E t \in BagToSet(timers) : Tick(MaxSessionSteps) /\ TimerFires(t)
  \/ \E k \in 1..MaxSockets : Tick(MaxSessionSteps) /\ Unauthorized(k, "A")
  \/ \E k \in 1..MaxSockets, payload \in InPayloads :
       Tick(MaxSessionSteps) /\ LoadCanvas(k, "A", payload)
  \/ \E p \in Positions : Tick(MaxSessionSteps) /\ HandleMouseDown(p)
  \/ \E p \in Positions : Tick(MaxSessionSteps) /\ HandleMouseMove(p)
  \/ Tick(MaxSessionSteps) /\ HandleMouseUp

SpecSession == Init /\ [][NextSession]_vars

\* ------------------------------------------------------------- the sidebar
\* The sidebar of one visit: the user opens the home page or canvas "A", then
\* shares, creates, deletes and logs out; the server answers; time passes and
\* the banner timers fire when due.
FetchOutcomes == {FetchFailed} \cup {Fetched(list) : list \in CanvasLists}

NextSidebar ==
  \/ \E newId \in {NoId, "A"} : ~mounted /\ Tick(MaxSidebarSteps) /\ Navigate(newId)
  \/ \E email \in Emails : Tick(MaxSidebarSteps) /\ ShareClick(email)
  \/ \E r \in sidebar.requests, ok \in BOOLEAN :
       Tick(MaxSidebarSteps) /\ ShareAnswered(r, ok)
  \/ Tick(MaxSidebarSteps) /\ CreateClick
  \/ \E r \in sidebar.requests, newId \in CanvasIds \cup {NoId}, f \in FetchOutcomes :
       Tick(MaxSidebarSteps) /\ CreateResolves(r, newId, f)
  \/ \E r \in sidebar.requests : Tick(MaxSidebarSteps) /\ CreateRejects(r)
  \/ \E c \in CanvasIds : Tick(MaxSidebarSteps) /\ DeleteClick(c)
  \/ \E r \in sidebar.requests, f \in FetchOutcomes :
       Tick(MaxSidebarSteps) /\ DeleteResolves(r, f)
  \/ \E r \in sidebar.requests : Tick(MaxSidebarSteps) /\ DeleteRejects(r)
  \/ \E r \in sidebar.requests, list \in CanvasLists :
       Tick(MaxSidebarSteps) /\ FetchResolves(r, list)
  \/ \E r \in sidebar.requests : Tick(MaxSidebarSteps) /\ FetchRejects(r)
  \/ Tick(MaxSidebarSteps) /\ HandleLogout
  \/ \E t \in sidebar.timers : Tick(MaxSidebarSteps) /\ BannerTimerFires(t)
  \/ \E d \in 1..MaxTime : Tick(MaxSidebarSteps) /\ TimePasses(d)

SpecSidebar == Init /\ [][NextSidebar]_vars

\* ------------------------------------------------------------- sessions in a row
\* The join protocol across canvas switches: the user opens canvas after canvas,
\* the transport connects, the join and retry timers fire whenever they are
\* due, the server refuses joins, and the user moves and releases the pointer.
NextSwitch ==
  \/ \E newId \in CanvasIds : Tick(MaxSwitchSteps) /\ Navigate(newId)
  \/ \E k \in 1..MaxSockets : Tick(MaxSwitchSteps) /\ SocketConnect(k)
  \/ \E t \in BagToSet(timers) : Tick(MaxSwitchSteps) /\ TimerFires(t)
  \/ \E k \in 1..MaxSockets, c \in CanvasIds :
       Tick(MaxSwitchSteps) /\ Unauthorized(k, c)
  \/ \E p \in Positions : Tick(MaxSwitchSteps) /\ HandleMouseMove(p)
  \/ Tick(MaxSwitchSteps) /\ HandleMouseUp

SpecSwitch == Init /\ [][NextSwitch]_vars

\* ------------------------------------------------------------- logout and login
\* The connection across a change of user: the user opens a canvas or the home
\* page, the transport connects, the join timers fire, the user moves and
\* releases the pointer, logs out with the Sidebar's button, opens the login
\* page and logs in.
NextLogout ==
  \/ \E newId \in {NoId, "A"} : Tick(MaxLogoutSteps) /\ Navigate(newId)
  \/ \E k \in 1..MaxSockets : Tick(MaxLogoutSteps) /\ SocketConnect(k)
  \/ \E t \in BagToSet(timers) : Tick(MaxLogoutSteps) /\ TimerFires(t)
  \/ \E p \in Positions : Tick(MaxLogoutSteps) /\ HandleMouseMove(p)
  \/ Tick(MaxLogoutSteps) /\ HandleMouseUp
  \/ Tick(MaxLogoutSteps) /\ HandleLogout
  \/ Tick(MaxLogoutSteps) /\ HandleLogin
  \/ \E token \in Tokens : Tick(MaxLogoutSteps) /\ LoginSucceeds(token)

SpecLogout == Init /\ [][NextLogout]_vars

\* ------------------------------------------------------------- load, gesture, undo
\* One scenario, step after step: the user opens canvas "A", the connection is
\* established, the canvas arrives (by the REST load, or by the loadCanvas event
\* that answers the join) with a list of valid elements, the user draws one
\* stroke or shape (down, moves, up) and presses Ctrl+Z.
ValidLoads ==
  {[array |-> TRUE, items |-> items] :
     items \in {<<>>, <<InRect>>, <<InBrush>>}}

DrawingTools == {BRUSH, RECTANGLE}

NextLoadUndo ==
  \/ lastOp.op = "init" /\ Tick(MaxBoardSteps) /\ Navigate("A")
  \/ \E k \in 1..MaxSockets :
       lastOp.op = "navigate" /\ Tick(MaxBoardSteps) /\ SocketConnect(k)
  \/ \E t \in BagToSet(timers) :
       lastOp.op = "connect" /\ Tick(MaxBoardSteps) /\ TimerFires(t)
  \/ \E k \in 1..MaxSockets, payload \in ValidLoads :
       lastOp.op = "join" /\ Tick(MaxBoardSteps) /\ LoadCanvas(k, "A", payload)
  \/ \E payload \in ValidLoads :
       lastOp.op = "connect" /\ Tick(MaxBoardSteps) /\ LoadResolves("A", payload)
  \/ \E tool \in DrawingTools :
       /\ lastOp.op \in {"loadCanvas", "loadResolves"}
       /\ Tick(MaxBoardSteps) /\ ChangeTool(tool)
  \/ \E p \in Positions :
       /\ lastOp.op \in {"loadCanvas", "loadResolves", "changeTool"}
       /\ Tick(MaxBoardSteps) /\ HandleMouseDown(p)
  \/ \E p \in Positions :
       /\ lastOp.op \in {"mouseDown", "mouseMove"}
       /\ Tick(MaxBoardSteps) /\ HandleMouseMove(p)
  \/ /\ lastOp.op \in {"mouseDown", "mouseMove"}
     /\ Tick(MaxBoardSteps) /\ HandleMouseUp
  \/ lastOp.op = "mouseUp" /\ Tick(MaxBoardSteps) /\ KeyUndo

SpecLoadUndo == Init /\ [][NextLoadUndo]_vars

\* ------------------------------------------------------------- claims
Elements == boardState.elements
History == boardState.history
Index == boardState.index
Phase == boardState.toolActionType

\* the steps that push a snapshot: DRAW_UP, ERASE and an effective CHANGE_TEXT
PushStep ==
  \/ lastOp'.op = "mouseUp" /\ isAuthorized /\ Phase = DRAWING
  \/ lastOp'.op = "mouseDown" /\ isAuthorized /\ Phase # WRITING
       /\ boardState.activeToolItem = ERASER
  \/ lastOp'.op = "mouseMove" /\ isAuthorized /\ Phase = ERASING
  \/ lastOp'.op = "blur" /\ ~CHANGE_TEXT_NoOp(boardState)

\* the state after a step that pushed a snapshot
AfterPush ==
  \/ lastOp.op = "mouseUp" /\ lastOp.phase = DRAWING /\ Index = lastOp.idx + 1
  \/ lastOp.op = "mouseDown" /\ Phase = ERASING /\ Index = lastOp.idx + 1
  \/ lastOp.op = "mouseMove" /\ lastOp.phase = ERASING /\ Index = lastOp.idx + 1
  \/ lastOp.op = "blur" /\ Index = lastOp.idx + 1

\* C1: in every reachable board state 0 <= index < length(history)
C1_IndexInRange == 0 <= Index /\ Index < Len(History)

\* pushes, then an undo from the last of three snapshots
C1_Witness ==
  /\ lastOp.op = "undo" /\ lastOp.idx = 2 /\ lastOp.len = 3
  /\ Index = 1 /\ Len(History) = 3

\* C2: after each DRAW_UP, ERASE, CHANGE_TEXT, UNDO and REDO the snapshot
\* history[index] equals the live element collection
C2_SnapshotEqualsLive ==
  (AfterPush \/ lastOp.op \in {"undo", "redo", "blur"})
    => StripSeq(HistAt(boardState, Index)) = StripSeq(Elements)

\* C3: a push at cursor i yields a history of length i+2 with cursor i+1, whose
\* entries 0..i are the previous ones and whose last entry is the pushed
\* snapshot (the valid live elements)
C3_PushLaw ==
  [][PushStep =>
       /\ Len(History') = Index + 2
       /\ Index' = Index + 1
       /\ SubSeq(History', 1, Index + 1) = SubSeq(History, 1, Index + 1)
       /\ StripSeq(History'[Index + 2]) = StripSeq(FilterValid(Elements'))]_vars

\* three snapshots, two undos, then a push: the redo branch is gone
C3_Witness ==
  /\ AfterPush /\ lastOp.len = 3 /\ lastOp.idx = 0
  /\ Len(History) = 2 /\ Index = 1

\* C4: UNDO at index 0 and REDO at the last index leave elements, history, index
\* and phase (the whole reducer state) unchanged
C4_BoundaryNoOp ==
  [][(\/ lastOp'.op = "undo" /\ Index = 0
      \/ lastOp'.op = "redo" /\ Index = Len(History) - 1)
       => boardState' = boardState]_vars

\* an undo at index 0 in the middle of a gesture, the live element kept
C4_Witness ==
  /\ lastOp.op = "undo" /\ lastOp.idx = 0 /\ lastOp.phase = DRAWING
  /\ Elements # <<>>

\* C5: UNDO and REDO leave the history sequence as it was
C5_UndoRedoKeepHistory ==
  [][lastOp'.op \in {"undo", "redo"} => History' = History]_vars

\* an undo that moved the cursor below a later snapshot
C5_Witness ==
  /\ lastOp.op = "undo" /\ lastOp.idx = 1 /\ Index = 0 /\ Len(History) = 2
  /\ History[2] # <<>>

\* a loadCanvas event runs the session's listener on an element list, or a REST
\* load completes with one
LoadDelivers(payload) ==
  /\ payload.array
  /\ \/ \E c \in CanvasIds : LoadResolves(c, payload)
     \/ \E k \in 1..MaxSockets, c \in CanvasIds :
          sockets[k].handlers["loadCanvas"] = 1 /\ LoadCanvas(k, c, payload)

\* C6: after a loadCanvas event or a completed REST load the live collection is
\* the received list without its typeless entries, the history is exactly one
\* snapshot equal to that list, and index = 0
C6_LoadSeedsHistory ==
  [][\A payload \in InPayloads :
       LoadDelivers(payload) =>
         LET filtered == StripSeq(FilterValid(payload.items))
         IN /\ StripSeq(Elements') = filtered
            /\ Len(History') = 1
            /\ StripSeq(History'[1]) = filtered
            /\ Index' = 0]_vars

\* C7: a receiveDrawingUpdate event replaces the live collection by the received
\* list without its typeless entries and leaves history, index and phase alone
C7_RemoteUpdateKeepsHistory ==
  [][\A k \in 1..MaxSockets, payload \in InPayloads :
       (/\ payload.array
        /\ sockets[k].handlers["receiveDrawingUpdate"] = 1
        /\ ReceiveDrawingUpdate(k, payload))
         => /\ StripSeq(Elements') = StripSeq(FilterValid(payload.items))
            /\ History' = History
            /\ Index' = Index
            /\ Phase' = Phase]_vars

\* a peer's update arrives in the middle of a gesture, after earlier pushes
C7_Witness ==
  /\ lastOp.op = "receiveDrawingUpdate" /\ lastOp.phase = DRAWING
  /\ Len(History) >= 2
  /\ StripSeq(Elements) = <<InRect>>
  /\ StripSeq(HistAt(boardState, Index)) # StripSeq(Elements)

\* C8: right after the canvas identity changed the live collection is empty and
\* the history is exactly one snapshot, the empty collection, with index = 0
C8_SwitchClearsBoard ==
  (lastOp.op = "navigate" /\ id \in CanvasIds)
    => Elements = <<>> /\ History = << <<>> >> /\ Index = 0

\* C9: a REST load for canvas c that completes while another canvas is shown
\* changes neither elements, history, index nor the stored canvas id
C9_LateLoadIgnored ==
  [][\A c \in CanvasIds, payload \in InPayloads :
       (id \in CanvasIds /\ c # id /\ LoadResolves(c, payload))
         => boardState' = boardState]_vars

\* C10: while canvas B is shown no joinCanvas carrying another canvas identity
\* is emitted
C10_NoJoinForPreviousCanvas ==
  id \in CanvasIds =>
    \A i \in 1..Len(sent) : sent[i].type = "joinCanvas" => sent[i].canvasId = id


\* a render that takes the session from one canvas to another
SwitchStep ==
  /\ lastOp'.op = "navigate" /\ mounted
  /\ id \in CanvasIds /\ id' \in CanvasIds /\ id' # id

\* C11: a switch from canvas A to canvas B in the middle of a gesture emits
\* exactly one drawingUpdate, tagged A and carrying A's live collection of
\* before the switch; nothing it emits is tagged B
C11_SwitchSavesPrevious ==
  [][(SwitchStep /\ Phase = DRAWING) =>
       /\ Len(sent') = 1
       /\ sent'[1].type = "drawingUpdate"
       /\ sent'[1].canvasId = id
       /\ sent'[1].elements = StripSeq(Elements)
       /\ \A i \in 1..Len(sent') : sent'[i].canvasId # id']_vars

\* a rectangle begun on one canvas, no up yet, and the switch to the other
C11_Witness ==
  /\ lastOp.op = "navigate" /\ lastOp.phase = DRAWING
  /\ id \in CanvasIds
  /\ Len(sent) = 1 /\ sent[1].canvasId \in CanvasIds \ {id}
  /\ Len(sent[1].elements) = 1 /\ sent[1].elements[1].type = RECTANGLE


\* the session's handleUnauthorized runs on an unauthorized event
RefusalStep == refused'.events = refused.events + 1

\* C12: the first unauthorized event of a session arms exactly one delayed
\* joinCanvas retry for the session's canvas and denies nothing; every later one
\* arms none, so a session arms at most one retry
C12_RetryOnce ==
  [][RefusalStep =>
       /\ IF refused.events = 0
            THEN /\ timers' = timers (+) SetToBag({RetryTimer(sessionSock, id)})
                 /\ isAuthorized' /\ alerts' = alerts
            ELSE timers' = timers
       /\ refused'.retries <= 1]_vars

\* the join and its retry were both refused: one retry armed, none pending
C12_Witness ==
  /\ lastOp.op = "unauthorized" /\ refused.events = 2 /\ refused.retries = 1
  /\ timers = EmptyBag


\* a pointer down, move or up
PointerStep == lastOp'.op \in {"mouseDown", "mouseMove", "mouseUp"}

\* C13: after two join refusals in one session the session is read-only and
\* exactly one denial notice has been shown; in read-only mode pointer down,
\* move and up emit nothing and leave the board state as it is
C13_TwoRefusalsReadOnly ==
  [][/\ refused'.events = 2 => (~isAuthorized' /\ alerts' = <<AccessDenied>>)
     /\ (PointerStep /\ ~isAuthorized) => (sent' = <<>> /\ boardState' = boardState)
    ]_vars

\* a stroke begun before the second refusal, and a pointer move after it
C13_Witness ==
  /\ lastOp.op = "mouseMove" /\ lastOp.phase = DRAWING
  /\ refused.events = 2 /\ ~isAuthorized
  /\ Elements # <<>> /\ Elements[Len(Elements)].type = BRUSH


\* a session with an established connection and nothing left to happen by
\* itself: no timer pending, no connection still being established
SessionSettled ==
  /\ mounted /\ ~crashed /\ id \in CanvasIds
  /\ socketInstance # 0 /\ IsConnected(sockets, socketInstance)
  /\ timers = EmptyBag
  /\ \A k \in 1..MaxSockets : sockets[k].status \notin {"connecting", "dropped"}

\* C14: in a session that stays on its canvas, once a connection is established
\* and the join delay has passed, a joinCanvas for the canvas has been emitted,
\* whatever pointer events called getSocket before the connection was there
C14_JoinEmittedOnceConnected ==
  SessionSettled => \E k \in 1..MaxSockets : id \in sockets[k].joined


\* a pointer move or up of an authorized session: it calls getSocket()
GetSocketStep == lastOp'.op \in {"mouseMove", "mouseUp"} /\ isAuthorized

\* C15: a getSocket() call that follows an earlier one, with no forced reconnect
\* and no transport drop in between, returns the same connection and opens no
\* other, also while that connection is still being established
C15_GetSocketIdempotent ==
  [][(/\ GetSocketStep
      /\ socketInstance # 0
      /\ sockets[socketInstance].status \in {"connecting", "connected"})
       => /\ socketInstance' = socketInstance
          /\ \A k \in 1..MaxSockets : sockets'[k].status = sockets[k].status]_vars


\* C16: reconnectSocket() leaves no connection instance held, the one there was
\* being closed; the next getSocket() opens a new connection that carries the
\* value the token store has at that call
C16_ReconnectPicksFreshToken ==
  [][/\ lastOp'.op = "login" =>
          /\ socketInstance' = 0
          /\ socketInstance # 0 => sockets'[socketInstance].status = "closed"
     /\ (socketInstance = 0 /\ socketInstance' # 0) =>
          /\ sockets[socketInstance'].status = "none"
          /\ sockets'[socketInstance'].status = "connecting"
          /\ sockets'[socketInstance'].token = tokenStore']_vars

\* a connection opened before the login, closed by it, and the connection the
\* next session opened with the token the login stored
C16_Witness ==
  /\ lastOp.op = "navigate" /\ socketInstance # 0
  /\ sockets[socketInstance].token = tokenStore /\ tokenStore \in Tokens
  /\ \E k \in 1..MaxSockets :
       sockets[k].status = "closed" /\ sockets[k].token = NoToken


\* C17: no connection ever has more than one listener of an event kind, and a
\* message arriving on the session's connection is applied to the board once
C17_OneListenerPerEvent ==
  [][/\ \A k \in 1..MaxSockets, e \in Events : sockets'[k].handlers[e] <= 1
     /\ \A k \in 1..MaxSockets, payload \in InPayloads :
          (k = sessionSock /\ ReceiveDrawingUpdate(k, payload))
            => boardState' = onReceiveDrawingUpdate(boardState, payload)
     /\ \A k \in 1..MaxSockets, c \in CanvasIds, payload \in InPayloads :
          (k = sessionSock /\ LoadCanvas(k, c, payload))
            => boardState' = onLoadCanvas(boardState, payload)]_vars

\* a second session on the connection of the first, whose join timer is still
\* pending, receives its canvas
C17_Witness ==
  /\ lastOp.op = "loadCanvas" /\ sessionSock # 0 /\ id \in CanvasIds
  /\ sockets[sessionSock].handlers["loadCanvas"] = 1
  /\ \E t \in BagToSet(timers) : t.canvasId # id /\ t.sock = sessionSock
  /\ StripSeq(Elements) = <<InRect>>


\* a pointer move that runs DRAW_MOVE
DrawMoveStep == lastOp'.op = "mouseMove" /\ isAuthorized /\ Phase = DRAWING

\* a pointer up that ends a drawing gesture
DrawUpStep == lastOp'.op = "mouseUp" /\ isAuthorized /\ Phase = DRAWING

\* C18: a move while DRAWING leaves history and index as they are; the up that
\* ends the gesture pushes one snapshot, so a gesture begun at the last snapshot
\* makes the history one longer however many moves it had
C18_MoveKeepsHistory ==
  [][/\ DrawMoveStep => (History' = History /\ Index' = Index)
     /\ DrawUpStep =>
          /\ Index' = Index + 1 /\ Len(History') = Index + 2
          /\ Index = Len(History) - 1 => Len(History') = Len(History) + 1]_vars

\* a brush gesture of two moves ended by its up
C18_Witness ==
  /\ lastOp.op = "mouseUp" /\ lastOp.phase = DRAWING
  /\ Len(History) = lastOp.len + 1
  /\ Elements # <<>> /\ Len(Elements[Len(Elements)].points) = 2


\* no valid element of the live collection is near pointer position p
NothingNear(p) ==
  \A i \in 1..Len(Elements) :
    IsValidElement(Elements[i]) => ~isPointNearElement(Elements[i], p)

\* C19: a move while ERASING with no element near the pointer leaves the live
\* collection, the history and the index as they are
C19_EraseMovePushesOnChange ==
  [][\A p \in Positions :
       (/\ isAuthorized /\ Phase = ERASING
        /\ NothingNear(p) /\ Elements = FilterValid(Elements)
        /\ HandleMouseMove(p))
         => (Elements' = Elements /\ History' = History /\ Index' = Index)]_vars

\* a pointer up the board handles
MouseUpStep == lastOp'.op = "mouseUp" /\ isAuthorized

\* the step pushed exactly one snapshot
PushedOne == Index' = Index + 1 /\ Len(History') = Index + 2

\* the step left the history and the cursor alone
PushedNone == History' = History /\ Index' = Index

\* C20: a pointer up always leaves the phase NONE, whatever the phase before; it
\* pushes exactly one snapshot when the phase before was DRAWING, none otherwise
C20_UpAlwaysEndsPhase ==
  [][MouseUpStep =>
       /\ Phase' = NONE
       /\ IF Phase = DRAWING THEN PushedOne ELSE PushedNone]_vars

\* C20 as amended: a pointer up leaves the phase NONE when the phase before was
\* NONE, DRAWING or ERASING and leaves WRITING as it is; it pushes exactly one
\* snapshot when the phase before was DRAWING, none otherwise
C20_UpEndsGesturePhases ==
  [][MouseUpStep =>
       /\ Phase' = IF Phase = WRITING THEN WRITING ELSE NONE
       /\ IF Phase = DRAWING THEN PushedOne ELSE PushedNone]_vars

\* the up of the click that placed a text element: the textarea stays open
C20_Witness ==
  /\ lastOp.op = "mouseUp" /\ lastOp.phase = WRITING
  /\ Phase = WRITING /\ TextAreaShown /\ isAuthorized


\* a pointer down with the text tool that the board handles
TextDownStep ==
  /\ lastOp'.op = "mouseDown" /\ isAuthorized
  /\ Phase # WRITING /\ boardState.activeToolItem = TEXT

\* C21: a down with the text tool appends a text element with no text yet and
\* enters WRITING without pushing; the text commit on a last element of text
\* type writes the entered string into it, pushes exactly one snapshot, equal to
\* the live collection holding it, and sets the phase to NONE
C21_TextDownThenCommit ==
  [][/\ TextDownStep =>
          /\ Len(Elements') = Len(Elements) + 1
          /\ SubSeq(Elements', 1, Len(Elements)) = Elements
          /\ Elements'[Len(Elements')].type = TEXT
          /\ Elements'[Len(Elements')].text = ""
          /\ Phase' = WRITING
          /\ PushedNone
     /\ \A text \in Texts :
          (TextAreaBlur(text) /\ ~CHANGE_TEXT_NoOp(boardState)) =>
            /\ Elements' = [Elements EXCEPT ![Len(Elements)].text = text]
            /\ PushedOne
            /\ SubSeq(History', 1, Index + 1) = SubSeq(History, 1, Index + 1)
            /\ History'[Index + 2] = Elements'
            /\ Phase' = NONE]_vars

\* a text element placed after an earlier stroke, and its text committed
C21_Witness ==
  /\ lastOp.op = "blur" /\ lastOp.phase = WRITING /\ Phase = NONE
  /\ Len(Elements) = 2
  /\ Elements[2].type = TEXT /\ Elements[2].text \in Texts
  /\ Index = lastOp.idx + 1 /\ HistAt(boardState, Index) = Elements


\* the last entry of an element array, NullEntry standing for undefined
LastOf(seq) == IF seq = <<>> THEN NullEntry ELSE seq[Len(seq)]

\* a pointer down that runs DRAW_DOWN
DrawDownStep ==
  /\ lastOp'.op = "mouseDown" /\ isAuthorized
  /\ Phase # WRITING /\ boardState.activeToolItem # ERASER

\* C22: whenever the phase is DRAWING the live collection is non-empty and its
\* last entry is the element of the current gesture: the down appends it, and
\* every step other than a pointer move that leaves the phase DRAWING (undo,
\* redo, inbound update, load, canvas switch) leaves the last entry in place; a
\* move while DRAWING changes nothing but that last entry and does not fail
C22_GestureElementStaysLast ==
  [][/\ Phase' = DRAWING => Elements' # <<>>
     /\ (DrawDownStep /\ Phase' = DRAWING) =>
          SubSeq(Elements', 1, Len(Elements') - 1) = Elements
     /\ (Phase = DRAWING /\ Phase' = DRAWING /\ ~DrawMoveStep /\ ~DrawDownStep) =>
          /\ Len(Elements') = Len(Elements)
          /\ LastOf(Elements') = LastOf(Elements)
     /\ DrawMoveStep =>
          /\ ~crashed'
          /\ Len(Elements') = Len(Elements)
          /\ SubSeq(Elements', 1, Len(Elements) - 1)
               = SubSeq(Elements, 1, Len(Elements) - 1)]_vars


\* a pointer move that appends a point to the brush stroke being drawn
BrushMoveStep ==
  /\ DrawMoveStep /\ ~crashed'
  /\ LastOf(Elements).type = BRUSH

\* C23: once a push has stored a snapshot (DRAW_UP, ERASE and CHANGE_TEXT store
\* the snapshots after the first, which the load or the clearing of the board
\* stored), a move while DRAWING that changes the point sequence of a freehand
\* element of the live collection changes no snapshot of the history
C23_PushedSnapshotsIsolated ==
  [][(BrushMoveStep /\ Len(History) >= 2) =>
       /\ LastOf(Elements').points # LastOf(Elements).points
       /\ History' = History]_vars

\* a stroke is extended while a pushed snapshot holds an object of the live
\* collection (ERASE and CHANGE_TEXT store the live objects themselves) and
\* another pushed snapshot holds a stroke with points
C23_Witness ==
  /\ lastOp.op = "mouseMove" /\ lastOp.phase = DRAWING /\ ~crashed
  /\ LastOf(Elements).type = BRUSH /\ LastOf(Elements).points # <<>>
  /\ \E i \in 2..Len(History) : OidsOfSeq(History[i]) \cap OidsOfSeq(Elements) # {}


\* the element types the spec recognizes
RecognizedTypes == {LINE, RECTANGLE, CIRCLE, ARROW, BRUSH, TEXT}

\* every entry of the array is an element of a recognized type
AllRecognized(seq) ==
  \A i \in 1..Len(seq) : seq[i].kind = "object" /\ seq[i].type \in RecognizedTypes

\* C24: every element held in the live collection, stored in a history snapshot
\* or carried by an emitted drawingUpdate has a type of the recognized set;
\* null entries, typeless entries and entries of an unrecognized type that a
\* loadCanvas, a receiveDrawingUpdate or the REST load delivered reach none of
\* them
C24_OnlyRecognizedTypes ==
  /\ AllRecognized(Elements)
  /\ \A i \in 1..Len(History) : AllRecognized(History[i])
  /\ \A i \in 1..Len(sent) :
       sent[i].type = "drawingUpdate" => AllRecognized(sent[i].elements)

\* an element of an unrecognized type that a load delivered is in the live
\* collection and in the drawingUpdate a pointer move emitted
C24_Witness ==
  /\ lastOp.op = "mouseMove"
  /\ \E i \in 1..Len(Elements) : Elements[i].type = "star"
  /\ Len(sent) = 1 /\ sent[1].type = "drawingUpdate"
  /\ \E i \in 1..Len(sent[1].elements) : sent[1].elements[i].type = "star"


\* C25: while authorized, every pointer move and every pointer up on a canvas
\* emits exactly one message, a drawingUpdate tagged with the canvas identity
\* and carrying the whole live collection the event finds (the change a move
\* makes itself travels with the next move or up); the up that ends a gesture
\* carries the finalized collection: the live collection it leaves, which is
\* the snapshot it pushes
C25_MoveAndUpBroadcast ==
  [][(GetSocketStep /\ id \in CanvasIds) =>
       /\ Len(sent') = 1
       /\ sent'[1].type = "drawingUpdate"
       /\ sent'[1].canvasId = id
       /\ sent'[1].elements = StripSeq(Elements)
       /\ DrawUpStep =>
            /\ sent'[1].elements = StripSeq(Elements')
            /\ sent'[1].elements = StripSeq(HistAt(boardState', Index'))]_vars

\* the up of a second stroke: the update carries both strokes, the second with
\* the points its moves added
C25_Witness ==
  /\ lastOp.op = "mouseUp" /\ lastOp.phase = DRAWING /\ isAuthorized
  /\ Len(sent) = 1 /\ Len(sent[1].elements) = 2
  /\ sent[1].elements[2].type = BRUSH /\ sent[1].elements[2].points # <<>>
  /\ sent[1].elements = StripSeq(Elements)


\* a step sets the error banner, or the success banner
SetsBanner(setter) ==
  /\ sidebar'[setter] # ""
  /\ \/ sidebar'[setter] # sidebar[setter]
     \/ sidebar'.since[setter] # sidebar.since[setter]
     \/ sidebar'.delay[setter] # sidebar.delay[setter]

\* a timer clears a banner that is shown
ClearsBanner(setter) ==
  /\ lastOp'.op = "bannerTimer"
  /\ sidebar[setter] # "" /\ sidebar'[setter] = ""

\* C26: every step of a share, create or delete operation that sets a banner
\* starts the timer that clears it, and a timer clears a banner no earlier than
\* the delay of the banner's own timer after the banner was set
C26_BannersClearedByOwnTimer ==
  [][\A setter \in {"error", "success"} :
       /\ SetsBanner(setter) =>
            /\ sidebar'.delay[setter] > 0
            /\ BannerTimer(setter, sidebar'.since[setter] + sidebar'.delay[setter])
                 \in sidebar'.timers
       /\ ClearsBanner(setter) =>
            /\ sidebar.delay[setter] > 0
            /\ sidebar.now >= sidebar.since[setter] + sidebar.delay[setter]]_vars

\* a later error banner is shown while the timer of an earlier one is pending
\* and due before the later banner's own delay has elapsed
C26_Witness ==
  /\ sidebar.error # "" /\ sidebar.delay.error > 0
  /\ \E t \in sidebar.timers :
       t.setter = "error" /\ t.due < sidebar.since.error + sidebar.delay.error


\* C27: after a load that delivered the valid element list E, one complete
\* drawing gesture (down, moves, up) followed by one undo leaves the live
\* collection equal to E; in the scenario of SpecLoadUndo the live collection
\* before the undo is E followed by the gesture's element
C27_UndoAfterGestureRestoresLoad ==
  [][lastOp'.op = "undo" =>
       StripSeq(Elements') = StripSeq(SubSeq(Elements, 1, Len(Elements) - 1))]_vars

\* the scenario run to its end on a loaded rectangle: the undo took the cursor
\* back to the load's snapshot
C27_Witness ==
  /\ lastOp.op = "undo" /\ lastOp.idx = 1 /\ Index = 0
  /\ History[1] = <<ArrEntry(<<InRect>>)>>


\* C28: once the session of a canvas is denied (isAuthorized false), no step
\* emits a drawingUpdate tagged with that canvas, the switch to another canvas
\* included
C28_DeniedSessionEmitsNothing ==
  [][(mounted /\ ~isAuthorized /\ id \in CanvasIds) =>
       \A i \in 1..Len(sent') :
         sent'[i].type = "drawingUpdate" => sent'[i].canvasId # id]_vars

\* the user has left a denied canvas for the other one
C28_Witness ==
  /\ lastOp.op = "navigate" /\ alerts = <<AccessDenied>> /\ isAuthorized
  /\ Len(sent) = 1 /\ sent[1].type = "drawingUpdate" /\ sent[1].canvasId # id


\* C29: an unauthorized reply to a join sent for another canvas than the one
\* shown (the late join of a canvas visited before) leaves the session's retry
\* counter, its pending timers and its authorization as they are
C29_ForeignRefusalNotCounted ==
  [][\A k \in 1..MaxSockets, c \in CanvasIds :
       (mounted /\ id \in CanvasIds /\ c # id /\ Unauthorized(k, c)) =>
         /\ unauthorizedRetryCount' = unauthorizedRetryCount
         /\ timers' = timers
         /\ isAuthorized' = isAuthorized
         /\ alerts' = alerts]_vars

\* the session of the canvas shown has counted a refusal and armed its retry
\* before any joinCanvas for that canvas was emitted on its connection
C29_Witness ==
  /\ lastOp.op = "unauthorized" /\ unauthorizedRetryCount = 1 /\ id \in CanvasIds
  /\ sessionSock # 0 /\ id \notin sockets[sessionSock].joined
  /\ BagIn(RetryTimer(sessionSock, id), timers)



\* C30: while the phase is WRITING the text input is on screen, so a blur can
\* happen, and every blur of the text input returns the phase to NONE, also after
\* an undo, a redo or an inbound update replaced the live collection during
\* WRITING; the machine is never left in WRITING with no commit that ends it
C30_BlurAlwaysEndsWriting ==
  [][/\ Phase' = WRITING => TextAreaShown'
     /\ \A text \in Texts : TextAreaBlur(text) => Phase' = NONE]_vars

\* the text input was blurred and the phase is still WRITING: the last element
\* is not a text element, pointer down, move and up are ignored
C30_Witness ==
  /\ lastOp.op = "blur" /\ Phase = WRITING
  /\ CHANGE_TEXT_NoOp(boardState)



\* C31: whenever a pointer move or up has emitted a drawingUpdate, the
\* connection it was emitted on is the one the canvas session's socket effect
\* captured, it is the instance the socket module holds, and the session's
\* inbound listeners are registered on it: getSocket() in a pointer handler never
\* puts an instance without listeners in its place
C31_PointerEmitsOnSessionConnection ==
  (mounted /\ id \in CanvasIds /\ lastOp.op \in {"mouseMove", "mouseUp"} /\ sent # <<>>)
    => /\ sessionSock # 0
       /\ socketInstance = sessionSock
       /\ \A i \in 1..Len(sent) : sent[i].sock = sessionSock
       /\ \A e \in Events \ {"connect"} : sockets[socketInstance].handlers[e] > 0

\* a pointer event emitted on a connection opened by its own getSocket() call:
\* the session's listeners are on the connection that call closed
C31_Witness ==
  /\ mounted /\ id \in CanvasIds /\ lastOp.op \in {"mouseMove", "mouseUp"} /\ sent # <<>>
  /\ sessionSock # 0 /\ socketInstance # sessionSock
  /\ sockets[sessionSock].status = "closed"
  /\ sockets[socketInstance].handlers = NoHandlers
  /\ sent[1].sock = socketInstance



\* a step of an authorized session that changes the live collection locally: an
\* erase on pointer down, a text commit, an undo or a redo that replaces it, or
\* the pointer up that finishes a gesture
LocalChangeStep ==
  /\ mounted /\ isAuthorized
  /\ \/ lastOp'.op = "mouseUp" /\ Phase = DRAWING
     \/ /\ \/ lastOp'.op = "mouseDown" /\ boardState.activeToolItem = ERASER
           \/ lastOp'.op \in {"blur", "undo", "redo"}
        /\ StripSeq(Elements') # StripSeq(Elements)

\* C32: every local change of the live collection made while authorized is sent:
\* the handler that makes the change emits a drawingUpdate for the canvas shown
\* that carries the changed collection, so that no later pointer event is needed
\* for the other clients to see it
C32_LocalChangeIsBroadcast ==
  [][LocalChangeStep =>
       \E i \in 1..Len(sent') :
         /\ sent'[i].type = "drawingUpdate"
         /\ sent'[i].canvasId = id
         /\ sent'[i].elements = StripSeq(Elements')]_vars

\* an undo of an authorized session replaced the live collection and nothing
\* was emitted
C32_Witness ==
  /\ mounted /\ isAuthorized /\ lastOp.op = "undo" /\ Index # lastOp.idx
  /\ sent = <<>>



\* C33: every joinCanvas and drawingUpdate is emitted on a connection whose
\* credential is the value the token store has at that moment; after logout
\* emptied the store nothing is sent on a connection that still carries the
\* credential of the user who logged out
C33_EmitCarriesStoredToken ==
  \A i \in 1..Len(sent) :
    sockets[sent[i].sock].status # "closed"
      => sockets[sent[i].sock].token = getAuthToken

\* after a logout the token store is empty and a message was emitted on an open
\* connection that was opened with the credential of the user who logged out
C33_Witness ==
  /\ tokenStore = NoToken /\ ~boardState.isUserLoggedIn
  /\ lastOp.op \in {"mouseMove", "mouseUp"} /\ sent # <<>>
  /\ sockets[sent[1].sock].status \in {"connecting", "connected"}
  /\ sockets[sent[1].sock].token \in Tokens



\* C34: a handleCreateCanvas call that awaits its refresh of the list is never
\* joined by another one: no POST create is sent by the fetchCanvases() a
\* handleCreateCanvas call is awaiting, so that one auto-create (or one click)
\* creates one canvas and the mutual calls end, also when the list comes back
\* empty after the canvas was created
C34_OneCreatePerAutoCreate ==
  \A r \in sidebar.requests : r.op = "create" => r.outer = <<>>

\* the Sidebar of a logged-in user with no canvases mounted on the home page,
\* one canvas was created, the list came back empty, and a second POST create
\* is in flight while the first handleCreateCanvas call is suspended
C34_Witness ==
  /\ mounted /\ boardState.isUserLoggedIn /\ sidebar.canvases = <<>>
  /\ lastOp.op = "createResolves"
  /\ \E r \in sidebar.requests : r.op = "create" /\ Len(r.outer) = 1

====
